---- MODULE Spec2Model ----
(***************************************************************************)
(* Model of src/custom/hooks/useRefetchPriceCallback.ts: the quote         *)
(* operation _getQuote, its latest-call-wins wrapper getQuote and the      *)
(* refetch callback that reconciles a delivered quote into the store.      *)
(*                                                                         *)
(* The event loop is single-threaded: an action is one task together with  *)
(* the promise reactions it triggers.  The suspension points of the code   *)
(* (await feePromise, the fee and the price request in flight) separate    *)
(* the actions.                                                            *)
(***************************************************************************)
EXTENDS Integers, Sequences, FiniteSets, TLC

\* ---------------------------------------------------------------- bounds
MaxCalls == 3
MaxAmount == 2
MaxFee == 2

\* ---------------------------------------------------------------- values
\* An optional value (undefined / null in the code) is a sequence of length
\* at most one.
None == <<>>

Some(x) == <<x>>

Tokens == {"0xAb", "0xCd"}

ChainIds == {1, 4}

Kinds == {"sell", "buy"}

Amounts == 0..MaxAmount

FeeAmounts == 0..MaxFee

\* FeeInformation
FeeInformation(amount) == [amount |-> amount]

\* FeeInformation | undefined
PreviousFees == {None} \cup {Some(FeeInformation(f)) : f \in FeeAmounts}

\* RefetchQuoteCallbackParmams, quoteParams flattened
RefetchQuoteCallbackParmams ==
    [sellToken : {"0xAb"}, buyToken : {"0xCd"}, amount : Amounts,
     kind : Kinds, chainId : ChainIds, fetchFee : BOOLEAN,
     previousFee : PreviousFees]

\* What a request can fail with: an OperatorError of type UnsupportedToken
\* (with a description of three words, and of two), an OperatorError of
\* another type, and a value that is not an OperatorError although it
\* carries the same fields.
ApiErrorCodes_UnsupportedToken == "UnsupportedToken"

Errors ==
    { [operator |-> TRUE, type |-> ApiErrorCodes_UnsupportedToken,
       description |-> <<"Token", "address", "0xCd">>],
      [operator |-> TRUE, type |-> ApiErrorCodes_UnsupportedToken,
       description |-> <<"Unsupported", "token">>],
      [operator |-> TRUE, type |-> "InsufficientLiquidity",
       description |-> <<"No", "liquidity">>],
      [operator |-> FALSE, type |-> ApiErrorCodes_UnsupportedToken,
       description |-> <<"Token", "address", "0xAb">>] }

\* String.prototype.toLowerCase on the token addresses of the model
toLowerCase(a) ==
    IF a = "0xAb" THEN "0xab" ELSE IF a = "0xCd" THEN "0xcd" ELSE a

\* error.description.split(' ')[2]: the third word, undefined if there is none
split2(description) ==
    IF Len(description) >= 3 THEN Some(description[3]) ELSE None

VARIABLES latestToken, calls, storeLog

vars == <<latestToken, calls, storeLog>>

\* ------------------------------------------------------------- _getQuote
\* NeedsFeeFetch ignoring the previous fee: a new fee is always requested
NeedsFeeFetch_ignoresPrevious(p) == TRUE

\* line 37: a new fee is requested unless a previous one is reused
NeedsFeeFetch(p) == p.fetchFee \/ p.previousFee = None

\* lines 46-50: the amount left of a sell order once the fee is deducted
SellResult(amount, fee) == amount - fee

\* FeeExceedsPrice with result.lt('0') in place of result.lte('0')
FeeExceedsPrice_strict(amount, fee) == SellResult(amount, fee) < 0

\* line 48
FeeExceedsPrice(amount, fee) == SellResult(amount, fee) <= 0

\* lines 64-68: the price when the fee exceeds the amount
NoPrice(p) == [feeExceedsPrice |-> TRUE, token |-> p.sellToken, amount |-> None]

\* lines 59-62: the price the service answered, tagged
PriceWithFee(token, amount, feeExceedsPrice) ==
    [feeExceedsPrice |-> feeExceedsPrice, token |-> token, amount |-> Some(amount)]

\* outcome of a promise
Fulfilled(data) == [ok |-> TRUE, data |-> Some(data), error |-> None]

Rejected(e) == [ok |-> FALSE, data |-> None, error |-> Some(e)]

\* StartQuote awaiting the fee for a buy order too, before any price request
StartQuote_awaitsFee(token, p) ==
    LET fetch == NeedsFeeFetch(p)
    IN [token |-> token,
        params |-> p,
        feeRequests |-> IF fetch THEN 1 ELSE 0,
        feeState |-> IF fetch THEN "pending" ELSE "resolved",
        fee |-> IF fetch THEN None ELSE p.previousFee,
        feeError |-> None,
        pc |-> "awaitFee",
        priceRequest |-> None,
        priceState |-> "none",
        price |-> None,
        priceError |-> None,
        feeExceedsPrice |-> FALSE,
        outcome |-> None,
        deliveries |-> <<>>,
        returned |-> <<>>,
        marked |-> None]

\* lines 31-54: the synchronous part of _getQuote, up to its first suspension
StartQuote(token, p) ==
    LET fetch == NeedsFeeFetch(p)
        sell == p.kind = "sell"
    IN [token |-> token,
        params |-> p,
        feeRequests |-> IF fetch THEN 1 ELSE 0,
        feeState |-> IF fetch THEN "pending" ELSE "resolved",
        fee |-> IF fetch THEN None ELSE p.previousFee,
        feeError |-> None,
        pc |-> IF sell THEN "awaitFee" ELSE "awaitAll",
        priceRequest |-> IF sell THEN None ELSE Some(p.amount),
        priceState |-> IF sell THEN "none" ELSE "pending",
        price |-> None,
        priceError |-> None,
        feeExceedsPrice |-> FALSE,
        outcome |-> None,
        deliveries |-> <<>>,
        returned |-> <<>>,
        marked |-> None]

\* PromiseAll settling again whenever a later input settles
PromiseAll_resettles(c) ==
    IF c.pc = "awaitFee" THEN None
    ELSE IF c.feeState = "rejected" THEN Some(Rejected(c.feeError[1]))
    ELSE IF c.priceState = "rejected" THEN Some(Rejected(c.priceError[1]))
    ELSE IF c.feeState = "resolved" /\ c.priceState = "resolved"
         THEN Some(Fulfilled(<<c.price[1], c.fee[1]>>))
    ELSE None

\* PromiseAll over [pricePromise, pricePromise]
PromiseAll_priceTwice(c) ==
    IF c.pc # "awaitAll" THEN None
    ELSE IF c.feeState = "rejected" THEN Some(Rejected(c.feeError[1]))
    ELSE IF c.priceState = "rejected" THEN Some(Rejected(c.priceError[1]))
    ELSE IF c.feeState = "resolved" /\ c.priceState = "resolved"
         THEN Some(Fulfilled(<<c.price[1], c.price[1]>>))
    ELSE None

\* line 70: Promise.all([pricePromise, feePromise]) settles once: it rejects
\* on the first rejection and is fulfilled when both are; None while pending
PromiseAll(c) ==
    IF c.pc # "awaitAll" THEN None
    ELSE IF c.feeState = "rejected" THEN Some(Rejected(c.feeError[1]))
    ELSE IF c.priceState = "rejected" THEN Some(Rejected(c.priceError[1]))
    ELSE IF c.feeState = "resolved" /\ c.priceState = "resolved"
         THEN Some(Fulfilled(<<c.price[1], c.fee[1]>>))
    ELSE None

\* lines 45-68: _getQuote of a sell order resumes once the fee has settled
ResumeQuote(c) ==
    LET p == c.params
    IN IF c.feeState = "rejected" THEN c
       ELSE IF FeeExceedsPrice(p.amount, c.fee[1].amount)
            THEN [c EXCEPT !.pc = "awaitAll", !.feeExceedsPrice = TRUE,
                           !.priceState = "resolved", !.price = Some(NoPrice(p))]
            ELSE [c EXCEPT !.pc = "awaitAll", !.priceState = "pending",
                           !.priceRequest = Some(SellResult(p.amount, c.fee[1].amount))]

\* the outcome of _getQuote after resuming, None while it is still pending
ResumeOutcome(c) ==
    IF c.feeState = "rejected" THEN Some(Rejected(c.feeError[1]))
    ELSE PromiseAll(ResumeQuote(c))

\* ------------------------------------------------------------- coalescer
\* NextToken that stops counting: a token is reused
NextToken_reused(latest) == IF latest >= 2 THEN latest ELSE latest + 1

\* the next CallToken
NextToken(latest) == latest + 1

\* the settlement of a wrapped promise
Resolved(cancelled, data) ==
    [settled |-> "resolved", cancelled |-> cancelled, data |-> data, error |-> None]

Rejection(e) ==
    [settled |-> "rejected", cancelled |-> FALSE, data |-> None, error |-> Some(e)]

\* onlyResolvesLast turning every rejection into a cancellation
onlyResolvesLast_swallows(token, latest, outcome) ==
    IF token = latest /\ outcome.ok THEN Resolved(FALSE, outcome.data)
    ELSE Resolved(TRUE, None)

\* utils/async onlyResolvesLast: when the operation of the call holding
\* `token` settles with `outcome` while `latest` is the highest token issued
onlyResolvesLast(token, latest, outcome) ==
    IF token = latest
    THEN IF outcome.ok THEN Resolved(FALSE, outcome.data)
                       ELSE Rejection(outcome.error[1])
    ELSE Resolved(TRUE, None)

\* getQuote without the wrapper: every call delivers its own outcome
getQuote_unwrapped(token, latest, outcome) ==
    IF outcome.ok THEN Resolved(FALSE, outcome.data) ELSE Rejection(outcome.error[1])

\* lines 73-74: getQuote is _getQuote wrapped by onlyResolvesLast
getQuote(token, latest, outcome) == onlyResolvesLast(token, latest, outcome)

\* ------------------------------------------------------ refetch callback
\* _isValidOperatorError accepting anything that looks like an OperatorError
_isValidOperatorError_duck(error) == TRUE

\* lines 76-78
_isValidOperatorError(error) == error.operator

\* lines 80-110: the store actions of _handleUnsupportedToken
_handleUnsupportedToken(chainId, error) ==
    IF _isValidOperatorError(error)
    THEN IF error.type = ApiErrorCodes_UnsupportedToken
         THEN <<[type |-> "addUnsupportedToken", chainId |-> chainId,
                 address |-> split2(error.description)]>>
         ELSE <<>>
    ELSE <<>>

\* lines 116, 138: the lookup answers the token's record, or false
isUnsupportedTokenGp(marked, token) ==
    IF token \in marked THEN Some([address |-> token]) ELSE None

\* ApplyQuote looking the buy token up first
ApplyQuote_buyFirst(p, data, marked) ==
    LET price == data[1]
        fee == data[2]
        buyRec == isUnsupportedTokenGp(marked, p.buyToken)
        previouslyUnsupportedToken ==
            IF buyRec # None THEN buyRec ELSE isUnsupportedTokenGp(marked, p.sellToken)
        remove ==
            IF previouslyUnsupportedToken # None
            THEN <<[type |-> "removeUnsupportedToken", chainId |-> p.chainId,
                    address |-> toLowerCase(previouslyUnsupportedToken[1].address)]>>
            ELSE <<>>
    IN remove \o <<[type |-> "updateQuote", sellToken |-> p.sellToken,
                    buyToken |-> p.buyToken, amount |-> p.amount, price |-> price,
                    chainId |-> p.chainId, fee |-> fee,
                    feeExceedsPrice |-> price.feeExceedsPrice, kind |-> p.kind]>>

\* lines 136-163: the store actions for a quote delivered fresh
ApplyQuote(p, data, marked) ==
    LET price == data[1]
        fee == data[2]
        sellRec == isUnsupportedTokenGp(marked, p.sellToken)
        previouslyUnsupportedToken ==
            IF sellRec # None THEN sellRec ELSE isUnsupportedTokenGp(marked, p.buyToken)
        remove ==
            IF previouslyUnsupportedToken # None
            THEN <<[type |-> "removeUnsupportedToken", chainId |-> p.chainId,
                    address |-> toLowerCase(previouslyUnsupportedToken[1].address)]>>
            ELSE <<>>
    IN remove \o <<[type |-> "updateQuote", sellToken |-> p.sellToken,
                    buyToken |-> p.buyToken, amount |-> p.amount, price |-> price,
                    chainId |-> p.chainId, fee |-> fee,
                    feeExceedsPrice |-> price.feeExceedsPrice, kind |-> p.kind]>>

\* the catch block clearing the quote only in the else branch
CatchError_skipsClear(p, error) ==
    [actions |-> IF _handleUnsupportedToken(p.chainId, error) # <<>>
                 THEN _handleUnsupportedToken(p.chainId, error)
                 ELSE <<[type |-> "clearQuote", chainId |-> p.chainId,
                         token |-> p.sellToken]>>,
     settled |-> "resolved"]

\* lines 164-169: the catch block
CatchError(p, error) ==
    [actions |-> _handleUnsupportedToken(p.chainId, error)
                    \o <<[type |-> "clearQuote", chainId |-> p.chainId,
                          token |-> p.sellToken]>>,
     settled |-> "resolved"]

\* the callback without the early return of lines 132-135: destructuring
\* the missing data throws and the catch block runs
RefetchCallback_ignoresCancelled(p, d, marked) ==
    IF d.settled = "rejected" THEN CatchError(p, d.error[1])
    ELSE IF d.cancelled
         THEN CatchError(p, [operator |-> FALSE, type |-> "TypeError",
                             description |-> <<"data", "is", "undefined">>])
    ELSE [actions |-> ApplyQuote(p, d.data[1], marked), settled |-> "resolved"]

\* lines 126-170: what the callback does once `await getQuote(params)`
\* settles with delivery d: its store actions and how its own promise settles
RefetchCallback(p, d, marked) ==
    IF d.settled = "rejected" THEN CatchError(p, d.error[1])
    ELSE IF d.cancelled THEN [actions |-> <<>>, settled |-> "resolved"]
    ELSE [actions |-> ApplyQuote(p, d.data[1], marked), settled |-> "resolved"]

\* the store actions of call i, in the order they were dispatched
Tagged(i, actions) == [k \in 1..Len(actions) |-> [call |-> i, action |-> actions[k]]]

\* ----------------------------------------------------------------- state
Init ==
    /\ latestToken = 0
    /\ calls = <<>>
    /\ storeLog = <<>>

\* The operation of call i (record c, already updated by the event) settles
\* with `outcome`: the wrapper delivers, the callback resumes and dispatches.
\* `marked` is the unsupported-token list the lookups of line 138 see; the call
\* keeps it once that line has run.
Settle(i, c, outcome, marked) ==
    LET d == getQuote(c.token, latestToken, outcome)
        r == RefetchCallback(c.params, d, marked)
    IN /\ calls' = [calls EXCEPT ![i] =
                        [c EXCEPT !.pc = "settled", !.outcome = Some(outcome),
                                  !.deliveries = Append(@, d),
                                  !.returned = Append(@, r.settled),
                                  !.marked = IF d.settled = "resolved" /\ ~d.cancelled
                                             THEN Some(marked) ELSE None]]
       /\ storeLog' = storeLog \o Tagged(i, r.actions)

\* call i takes the event that turned its record into c; `lists` are the
\* sets of unsupported tokens the lookup of line 116 may see
Advance(i, c, outcomeOpt, lists) ==
    IF outcomeOpt = None
    THEN calls' = [calls EXCEPT ![i] = c] /\ UNCHANGED storeLog
    ELSE \E marked \in lists : Settle(i, c, outcomeOpt[1], marked)

\* Invoke aborting the operations still in flight: their requests are
\* dropped and their callers are left pending
Invoke_aborts(p, maxCalls) ==
    /\ Len(calls) < maxCalls
    /\ latestToken' = NextToken(latestToken)
    /\ calls' = Append([k \in 1..Len(calls) |->
                          IF calls[k].pc = "settled" THEN calls[k]
                          ELSE [calls[k] EXCEPT !.pc = "aborted", !.feeState = "aborted",
                                                !.priceState = "aborted"]],
                       StartQuote(NextToken(latestToken), p))
    /\ UNCHANGED storeLog

\* Invoke deduplicating by content: an invocation whose arguments equal
\* those of a call in flight joins that call, with no token and no operation
\* of its own
Invoke_dedup(p, maxCalls) ==
    /\ Len(calls) < maxCalls
    /\ LET same == {k \in 1..Len(calls) : calls[k].pc # "settled" /\ calls[k].params = p}
       IN IF same = {}
          THEN /\ latestToken' = NextToken(latestToken)
               /\ calls' = Append(calls, StartQuote(NextToken(latestToken), p))
          ELSE /\ latestToken' = latestToken
               /\ calls' = Append(calls, calls[CHOOSE k \in same : TRUE])
    /\ UNCHANGED storeLog

\* lines 126-131, 73-74, 31-54: the callback is invoked; the wrapper issues
\* the call's token and starts _getQuote, which runs to its first suspension
Invoke(p, maxCalls) ==
    /\ Len(calls) < maxCalls
    /\ latestToken' = NextToken(latestToken)
    /\ calls' = Append(calls, StartQuote(NextToken(latestToken), p))
    /\ UNCHANGED storeLog

\* line 45: a sell order's _getQuote resumes after `await feePromise`
ResumeSell(i, lists) ==
    /\ calls[i].pc = "awaitFee"
    /\ calls[i].feeState # "pending"
    /\ Advance(i, ResumeQuote(calls[i]), ResumeOutcome(calls[i]), lists)
    /\ UNCHANGED latestToken

\* getFeeQuote answers
FeeResolves(i, fee, lists) ==
    /\ calls[i].feeState = "pending"
    /\ LET c == [calls[i] EXCEPT !.feeState = "resolved", !.fee = Some(FeeInformation(fee))]
       IN Advance(i, c, PromiseAll(c), lists)
    /\ UNCHANGED latestToken

\* getFeeQuote fails
FeeRejects(i, e) ==
    /\ calls[i].feeState = "pending"
    /\ LET c == [calls[i] EXCEPT !.feeState = "rejected", !.feeError = Some(e)]
       IN Advance(i, c, PromiseAll(c), {{}})
    /\ UNCHANGED latestToken

\* getPriceQuote answers `info` (lines 59-62)
PriceResolves(i, info, lists) ==
    /\ calls[i].priceState = "pending"
    /\ LET c == [calls[i] EXCEPT !.priceState = "resolved",
                     !.price = Some(PriceWithFee(info.token, info.amount,
                                                 calls[i].feeExceedsPrice))]
       IN Advance(i, c, PromiseAll(c), lists)
    /\ UNCHANGED latestToken

\* getPriceQuote fails
PriceRejects(i, e) ==
    /\ calls[i].priceState = "pending"
    /\ LET c == [calls[i] EXCEPT !.priceState = "rejected", !.priceError = Some(e)]
       IN Advance(i, c, PromiseAll(c), {{}})
    /\ UNCHANGED latestToken

\* ------------------------------------------------------- specifications
Settled(c) == c.pc = "settled"

\* Spec: many overlapping calls over few inputs
CoalescerParams ==
    { p \in RefetchQuoteCallbackParmams :
        p.chainId = 1 /\ p.amount = 2 /\ p.fetchFee /\ p.previousFee = None }

CoalescerFees == {1}

CoalescerErrors ==
    { e \in Errors : e.operator /\ e.type = ApiErrorCodes_UnsupportedToken
                        /\ Len(e.description) >= 3 }

CoalescerPrices == [token : {"0xCd"}, amount : {7, 8}]

CoalescerLists == {{}}

\* the completions and resumptions of the calls in flight
Complete ==
    \/ \E i \in 1..Len(calls) : ResumeSell(i, CoalescerLists)
    \/ \E i \in 1..Len(calls), fee \in CoalescerFees : FeeResolves(i, fee, CoalescerLists)
    \/ \E i \in 1..Len(calls), e \in CoalescerErrors : FeeRejects(i, e)
    \/ \E i \in 1..Len(calls), info \in CoalescerPrices : PriceResolves(i, info, CoalescerLists)
    \/ \E i \in 1..Len(calls), e \in CoalescerErrors : PriceRejects(i, e)

Next ==
    \/ \E p \in CoalescerParams : Invoke(p, MaxCalls)
    \/ Complete

Spec == Init /\ [][Next]_vars

\* SpecFair: as Spec over one price answer, and every operation in flight
\* eventually completes
FairPrices == [token : {"0xCd"}, amount : {7}]

CompleteFair ==
    \/ \E i \in 1..Len(calls) : ResumeSell(i, CoalescerLists)
    \/ \E i \in 1..Len(calls), fee \in CoalescerFees : FeeResolves(i, fee, CoalescerLists)
    \/ \E i \in 1..Len(calls), e \in CoalescerErrors : FeeRejects(i, e)
    \/ \E i \in 1..Len(calls), info \in FairPrices : PriceResolves(i, info, CoalescerLists)
    \/ \E i \in 1..Len(calls), e \in CoalescerErrors : PriceRejects(i, e)

NextFair ==
    \/ \E p \in CoalescerParams : Invoke(p, MaxCalls)
    \/ CompleteFair

SpecFair == Init /\ [][NextFair]_vars /\ WF_vars(CompleteFair)

\* SpecBatch: as Spec, but every call is issued before any call completes
InvokeBatch(p) ==
    /\ \A i \in 1..Len(calls) : ~Settled(calls[i])
    /\ Invoke(p, MaxCalls)

NextBatch ==
    \/ \E p \in CoalescerParams : InvokeBatch(p)
    \/ Complete

SpecBatch == Init /\ [][NextBatch]_vars

\* SpecQuote: one call over all inputs
QuotePrices == [token : Tokens, amount : {7}]

InvokeOnce(p) ==
    /\ calls = <<>>
    /\ Invoke(p, MaxCalls)

NextQuote ==
    \/ \E p \in RefetchQuoteCallbackParmams : InvokeOnce(p)
    \/ \E i \in 1..Len(calls) : ResumeSell(i, SUBSET Tokens)
    \/ \E i \in 1..Len(calls), fee \in FeeAmounts : FeeResolves(i, fee, SUBSET Tokens)
    \/ \E i \in 1..Len(calls), e \in Errors : FeeRejects(i, e)
    \/ \E i \in 1..Len(calls), info \in QuotePrices : PriceResolves(i, info, SUBSET Tokens)
    \/ \E i \in 1..Len(calls), e \in Errors : PriceRejects(i, e)

SpecQuote == Init /\ [][NextQuote]_vars

\* ---------------------------------------------------------------- claims
IsFresh(d) == d.settled = "resolved" /\ ~d.cancelled

IsCancelled(d) == d.settled = "resolved" /\ d.cancelled

IsRejection(d) == d.settled = "rejected"

Cancelled == Resolved(TRUE, None)

\* the result of call c's own operation: [price, fee]
OwnData(c) == <<c.price[1], c.fee[1]>>

Succeeded(c) == Settled(c) /\ c.outcome[1].ok

Failed(c) == Settled(c) /\ ~c.outcome[1].ok

\* the error the failing request of a failed call was answered with
FailedWith(c) == IF c.feeState = "rejected" THEN c.feeError[1] ELSE c.priceError[1]

HighestToken == latestToken

\* call i's operation settles in this step
Completes(i) == ~Settled(calls[i]) /\ Settled(calls'[i])

\* the store actions dispatched for call i, in order
ActionsOf(i) ==
    LET own == SelectSeq(storeLog, LAMBDA x : x.call = i)
    IN [k \in 1..Len(own) |-> own[k].action]

TypesOf(i) == [k \in 1..Len(ActionsOf(i)) |-> ActionsOf(i)[k].type]

Count(seq, type) == Cardinality({k \in 1..Len(seq) : seq[k] = type})

\* C1: when N calls are all issued before any of them completes and all
\* their operations succeed, in whatever order, exactly the call with the
\* highest token is delivered cancelled=false with its own data and each of
\* the others is delivered cancelled=true.
C1_OnlyHighestOfBatchIsFresh ==
    (Len(calls) >= 1 /\ \A i \in 1..Len(calls) : Succeeded(calls[i])) =>
        \A i \in 1..Len(calls) :
            calls[i].deliveries =
                IF calls[i].token = HighestToken
                THEN <<Resolved(FALSE, Some(OwnData(calls[i])))>>
                ELSE <<Cancelled>>

C1_Witness ==
    /\ Len(calls) >= 3
    /\ \A i \in 1..Len(calls) : Succeeded(calls[i])
    /\ IsFresh(calls[Len(calls)].deliveries[1])
    /\ IsCancelled(calls[1].deliveries[1])
    /\ OwnData(calls[1]) # OwnData(calls[Len(calls)])

\* C2: a call whose operation completes after a later call has been issued
\* is delivered cancelled=true, whether or not the later call has already
\* completed.
C2_SupersededCallIsStale ==
    [][\A i \in 1..Len(calls) :
          (Completes(i) /\ i < Len(calls)) => calls'[i].deliveries = <<Cancelled>>]_vars

C2_Witness ==
    \E a \in 1..Len(calls) : \E b \in 1..Len(calls) :
        /\ a < b
        /\ Succeeded(calls[a]) /\ calls[a].deliveries = <<Cancelled>>
        /\ Succeeded(calls[b]) /\ IsFresh(calls[b].deliveries[1])

\* C3: when the operation of a call rejects with e while the call still
\* holds the highest token, the wrapped promise rejects with exactly e.
C3_FreshRejectionPropagates ==
    [][\A i \in 1..Len(calls) :
          (Completes(i) /\ Failed(calls'[i]) /\ calls[i].token = HighestToken)
              => calls'[i].deliveries = <<Rejection(FailedWith(calls'[i]))>>]_vars

C3_Witness ==
    \E i \in 2..Len(calls) :
        /\ Failed(calls[i])
        /\ calls[i].deliveries = <<Rejection(FailedWith(calls[i]))>>
        /\ ~Settled(calls[1])

\* C4: when the operation of a call rejects after a newer call has been
\* issued, the wrapped promise resolves with cancelled=true and the caller
\* sees no rejection.
C4_StaleRejectionSwallowed ==
    [][\A i \in 1..Len(calls) :
          (Completes(i) /\ Failed(calls'[i]) /\ calls[i].token < HighestToken)
              => /\ calls'[i].deliveries = <<Cancelled>>
                 /\ calls'[i].returned = <<"resolved">>]_vars

C4_Witness ==
    \E i \in 1..Len(calls) :
        /\ Failed(calls[i])
        /\ calls[i].token < HighestToken
        /\ calls[i].deliveries = <<Cancelled>>

\* C5: the tokens issued are pairwise distinct and strictly increasing in
\* invocation order, each new token exceeds every token issued before and is
\* held by the call before its operation runs, and only an invocation
\* changes the latest-token counter.
C5_TokensIncrease ==
    /\ \A i \in 1..Len(calls) : \A j \in 1..Len(calls) :
          i < j => calls[i].token < calls[j].token
    /\ \A i \in 1..Len(calls) : calls[i].token <= latestToken

C5_CounterStep ==
    /\ \A i \in 1..Len(calls) : calls'[i].token = calls[i].token
    /\ latestToken' # latestToken =>
          /\ Len(calls') = Len(calls) + 1
          /\ latestToken' > latestToken
          /\ calls'[Len(calls')].token = latestToken'
    /\ Len(calls') # Len(calls) => latestToken' # latestToken

C5_TokensMonotonic == []C5_TokensIncrease /\ [][C5_CounterStep]_vars

C5_Witness ==
    /\ Len(calls) >= 3
    /\ latestToken = calls[Len(calls)].token
    /\ \E i \in 1..Len(calls) : Settled(calls[i])

\* C6: every call delivers exactly once, as exactly one of fresh, stale or
\* a rejection, and a delivery is never changed afterwards.
C6_OneDelivery ==
    \A i \in 1..Len(calls) :
        /\ Len(calls[i].deliveries) = IF Settled(calls[i]) THEN 1 ELSE 0
        /\ Len(calls[i].returned) = Len(calls[i].deliveries)

C6_DeliveryStep ==
    \A i \in 1..Len(calls) :
        calls[i].deliveries # <<>> => calls'[i].deliveries = calls[i].deliveries

C6_DeliversExactlyOnce == []C6_OneDelivery /\ [][C6_DeliveryStep]_vars

C6_Witness ==
    \E i \in 1..Len(calls) :
        /\ i < Len(calls)
        /\ calls[i].params.kind = "buy"
        /\ calls[i].feeState = "rejected" /\ calls[i].priceState = "rejected"
        /\ Len(calls[i].deliveries) = 1
        /\ IsRejection(calls[i].deliveries[1])

\* C7: a call delivered as cancelled dispatches no store action at all,
\* whether its fetch succeeded or failed.
C7_StaleCallIsSilent ==
    \A i \in 1..Len(calls) :
        (Settled(calls[i]) /\ \E k \in 1..Len(calls[i].deliveries) :
                                  IsCancelled(calls[i].deliveries[k]))
            => ActionsOf(i) = <<>>

C7_Witness ==
    /\ \E i \in 1..Len(calls) :
          /\ Failed(calls[i]) /\ calls[i].deliveries = <<Cancelled>>
          /\ FailedWith(calls[i]).operator
          /\ FailedWith(calls[i]).type = ApiErrorCodes_UnsupportedToken
    /\ \E i \in 1..Len(calls) :
          Succeeded(calls[i]) /\ calls[i].deliveries = <<Cancelled>>
    /\ storeLog # <<>>

\* C8: when a fresh call fails, with whatever error, the callback calls
\* clearQuote exactly once with the call's chainId and sell token, does not
\* call updateQuote and does not rethrow.
C8_FreshFailureClearsQuote ==
    \A i \in 1..Len(calls) :
        (Settled(calls[i]) /\ IsRejection(calls[i].deliveries[1])) =>
            /\ Count(TypesOf(i), "clearQuote") = 1
            /\ \E k \in 1..Len(ActionsOf(i)) :
                  ActionsOf(i)[k] = [type |-> "clearQuote",
                                     chainId |-> calls[i].params.chainId,
                                     token |-> calls[i].params.sellToken]
            /\ Count(TypesOf(i), "updateQuote") = 0
            /\ calls[i].returned = <<"resolved">>

C8_Witness ==
    \E i \in 1..Len(calls) :
        /\ Settled(calls[i]) /\ IsRejection(calls[i].deliveries[1])
        /\ calls[i].deliveries[1].error[1].operator
        /\ calls[i].deliveries[1].error[1].type = ApiErrorCodes_UnsupportedToken
        /\ calls[i].params.chainId = 4
        /\ TypesOf(i) = <<"addUnsupportedToken", "clearQuote">>

\* C9: addUnsupportedToken is called if and only if the error caught from a
\* fresh call is an OperatorError of the unsupported-token type, and then
\* with the call's chainId; any other error only clears the quote.
C9_OnlyUnsupportedTokenErrorMarks ==
    \A i \in 1..Len(calls) :
        Settled(calls[i]) =>
            LET d == calls[i].deliveries[1]
                marks == IsRejection(d) /\ d.error[1].operator
                           /\ d.error[1].type = ApiErrorCodes_UnsupportedToken
            IN /\ Count(TypesOf(i), "addUnsupportedToken") = IF marks THEN 1 ELSE 0
               /\ \A k \in 1..Len(ActionsOf(i)) :
                     ActionsOf(i)[k].type = "addUnsupportedToken" =>
                         ActionsOf(i)[k].chainId = calls[i].params.chainId
               /\ (IsRejection(d) /\ ~marks) => TypesOf(i) = <<"clearQuote">>

C9_Witness ==
    \E i \in 1..Len(calls) :
        /\ Settled(calls[i]) /\ IsRejection(calls[i].deliveries[1])
        /\ ~calls[i].deliveries[1].error[1].operator
        /\ calls[i].deliveries[1].error[1].type = ApiErrorCodes_UnsupportedToken
        /\ TypesOf(i) = <<"clearQuote">>

\* C10: a call that no other invocation has followed completes fresh: if
\* its operation succeeds it is delivered cancelled=false with the
\* operation's data, however many earlier calls were issued or are in flight.
C10_LastCallIsFresh ==
    \A i \in 1..Len(calls) :
        (i = Len(calls) /\ Succeeded(calls[i])) =>
            calls[i].deliveries = <<Resolved(FALSE, Some(OwnData(calls[i])))>>

C10_Witness ==
    /\ Len(calls) >= 3
    /\ Succeeded(calls[Len(calls)])
    /\ IsFresh(calls[Len(calls)].deliveries[1])
    /\ ~Settled(calls[1])
    /\ Succeeded(calls[2])

\* C11: freshness follows invocation order, not argument equality: two
\* invocations with identical arguments in immediate succession are two
\* calls with distinct tokens, each with an operation of its own; the first
\* is delivered cancelled=true and the second, when it succeeds with no
\* call after it, cancelled=false.
C11_IdenticalCallsDistinct ==
    \A i \in 1..Len(calls) : \A j \in 1..Len(calls) :
        (j = i + 1 /\ calls[i].params = calls[j].params) =>
            /\ calls[i].token < calls[j].token
            /\ calls[i].feeRequests = 1 /\ calls[j].feeRequests = 1
            /\ (j = Len(calls) /\ Succeeded(calls[j])) =>
                   calls[j].deliveries = <<Resolved(FALSE, Some(OwnData(calls[j])))>>

C11_IdenticalCallsStep ==
    /\ \A i \in 1..Len(calls) :
          (Completes(i) /\ i < Len(calls) /\ calls[i + 1].params = calls[i].params)
              => calls'[i].deliveries = <<Cancelled>>
    /\ (Len(calls') = Len(calls) + 1 /\ Len(calls) >= 1
          /\ calls'[Len(calls')].params = calls[Len(calls)].params)
              => /\ calls'[Len(calls')].feeState = "pending"
                 /\ calls'[Len(calls')].deliveries = <<>>
                 /\ latestToken' = latestToken + 1

C11_OrderNotContent == []C11_IdenticalCallsDistinct /\ [][C11_IdenticalCallsStep]_vars

C11_Witness ==
    \E i \in 1..Len(calls) :
        /\ i + 1 = Len(calls)
        /\ calls[i].params = calls[i + 1].params
        /\ Succeeded(calls[i]) /\ calls[i].deliveries = <<Cancelled>>
        /\ Succeeded(calls[i + 1]) /\ IsFresh(calls[i + 1].deliveries[1])
        /\ OwnData(calls[i]) = OwnData(calls[i + 1])

\* a sell order's _getQuote has resumed with the fee
Resumed(c) == c.params.kind = "sell" /\ c.pc # "awaitFee" /\ c.feeState = "resolved"

\* C12: for a sell quote of amount a with fee f, feeExceedsPrice is true
\* exactly when a - f <= 0; when false the price is requested for a - f;
\* when true no price is requested and the result is the price
\* {feeExceedsPrice: true, token: sellToken, amount: null} with the fee.
C12_SellFeeDeduction ==
    \A i \in 1..Len(calls) :
        Resumed(calls[i]) =>
            LET c == calls[i]
                a == c.params.amount
                f == c.fee[1].amount
            IN /\ c.feeExceedsPrice = (a - f <= 0)
               /\ a - f > 0 => c.priceRequest = Some(a - f)
               /\ a - f <= 0 =>
                     /\ c.priceRequest = None
                     /\ c.outcome = Some(Fulfilled(
                            <<[feeExceedsPrice |-> TRUE, token |-> c.params.sellToken,
                               amount |-> None], c.fee[1]>>))

C12_Witness ==
    \E i \in 1..Len(calls) :
        /\ Resumed(calls[i])
        /\ calls[i].params.amount = 1 /\ calls[i].fee[1].amount = 1
        /\ calls[i].params.fetchFee
        /\ calls[i].feeExceedsPrice
        /\ calls[i].priceRequest = None
        /\ IsFresh(calls[i].deliveries[1])

\* C13: cancellation is logical only: issuing a newer call leaves every
\* older call and its requests as they were, and, every operation in flight
\* eventually completing, every issued call is eventually delivered (fresh,
\* stale or as a rejection).
C13_InvokeLeavesOthers ==
    Len(calls') > Len(calls) => \A i \in 1..Len(calls) : calls'[i] = calls[i]

C13_AllDelivered == \A i \in 1..Len(calls) : Len(calls[i].deliveries) = 1

C13_EveryCallDelivered ==
    /\ [][C13_InvokeLeavesOthers]_vars
    /\ <>[]C13_AllDelivered

C13_Witness ==
    /\ Len(calls) >= 3
    /\ \A i \in 1..Len(calls) : Len(calls[i].deliveries) = 1
    /\ Succeeded(calls[1]) /\ calls[1].deliveries = <<Cancelled>>
    /\ Failed(calls[2]) /\ calls[2].deliveries = <<Cancelled>>
    /\ IsRejection(calls[3].deliveries[1])

\* the quote writes of the store log, in order
QuoteWrites ==
    SelectSeq(storeLog, LAMBDA x : x.action.type \in {"updateQuote", "clearQuote"})

\* C14: no earlier-issued call writes the quote after a later-issued call
\* has written it, and once no call is in flight the last quote write is the
\* most recently issued call's: updateQuote with its sellToken, buyToken,
\* amount, kind and chainId if it succeeded, clearQuote if it failed.
C14_LastWriteIsLatestCall ==
    LET writes == QuoteWrites
        n == Len(calls)
    IN /\ \A k \in 1..Len(writes) : \A l \in 1..Len(writes) :
              k < l => writes[k].call < writes[l].call
       /\ (n >= 1 /\ \A i \in 1..n : Settled(calls[i])) =>
              /\ Len(writes) >= 1
              /\ writes[Len(writes)].call = n
              /\ LET w == writes[Len(writes)].action
                     p == calls[n].params
                 IN IF Succeeded(calls[n])
                    THEN /\ w.type = "updateQuote"
                         /\ w.sellToken = p.sellToken /\ w.buyToken = p.buyToken
                         /\ w.amount = p.amount /\ w.kind = p.kind
                         /\ w.chainId = p.chainId
                    ELSE w = [type |-> "clearQuote", chainId |-> p.chainId,
                              token |-> p.sellToken]

C14_Witness ==
    /\ Len(calls) >= 3
    /\ \A i \in 1..Len(calls) : Settled(calls[i])
    /\ Len(QuoteWrites) = 2
    /\ QuoteWrites[1].call = 1 /\ QuoteWrites[1].action.type = "clearQuote"
    /\ QuoteWrites[2].call = Len(calls) /\ QuoteWrites[2].action.type = "updateQuote"
    /\ calls[1].params.kind # calls[Len(calls)].params.kind
    /\ Succeeded(calls[2])

\* C15: _getQuote requests a new fee if and only if fetchFee is true or no
\* previousFee was supplied; otherwise getFeeQuote is not called and the fee
\* of the result, and the one deducted from a sell amount, is previousFee.
C15_FeeFetchedOnlyWhenNeeded ==
    \A i \in 1..Len(calls) :
        LET c == calls[i]
            p == c.params
        IN /\ c.feeRequests = IF p.fetchFee \/ p.previousFee = None THEN 1 ELSE 0
           /\ (~p.fetchFee /\ p.previousFee # None) =>
                 /\ c.feeState = "resolved"
                 /\ c.fee = p.previousFee
                 /\ Succeeded(c) => c.outcome[1].data[1][2] = p.previousFee[1]
                 /\ Resumed(c) =>
                       /\ c.feeExceedsPrice = (p.amount - p.previousFee[1].amount <= 0)
                       /\ ~c.feeExceedsPrice =>
                             c.priceRequest = Some(p.amount - p.previousFee[1].amount)

C15_Witness ==
    \E i \in 1..Len(calls) :
        /\ ~calls[i].params.fetchFee
        /\ calls[i].params.previousFee = Some(FeeInformation(1))
        /\ calls[i].params.kind = "sell" /\ calls[i].params.amount = 2
        /\ calls[i].feeRequests = 0
        /\ calls[i].priceRequest = Some(1)
        /\ Succeeded(calls[i])
        /\ calls[i].deliveries[1].data[1][2] = FeeInformation(1)

\* C16: for a sell order the price request is issued only after the fee has
\* resolved, and if the fee fetch fails no price request is made and the
\* quote operation rejects with the fee error; for a buy order the price
\* request is issued for the full amount without waiting for the fee,
\* feeExceedsPrice is always false, and the operation rejects if either the
\* fee or the price fetch fails.
C16_PriceRequestOrdering ==
    \A i \in 1..Len(calls) :
        LET c == calls[i]
            p == c.params
        IN IF p.kind = "sell"
           THEN /\ c.priceRequest # None => c.feeState = "resolved"
                /\ c.feeState = "rejected" =>
                      /\ c.priceRequest = None /\ c.priceState = "none"
                      /\ c.pc # "awaitFee" => Failed(c)
                      /\ Settled(c) => c.outcome = Some(Rejected(c.feeError[1]))
           ELSE /\ c.priceRequest = Some(p.amount)
                /\ c.priceState # "none"
                /\ ~c.feeExceedsPrice
                /\ c.price # None => ~c.price[1].feeExceedsPrice
                /\ (c.feeState = "rejected" \/ c.priceState = "rejected") =>
                      /\ Failed(c)
                      /\ c.outcome[1] \in
                            {Rejected(e[1]) : e \in {c.feeError, c.priceError} \ {None}}

\* a buy order whose price fetch failed while its fee was still pending
C16_Witness ==
    \E i \in 1..Len(calls) :
        LET c == calls[i]
        IN /\ c.params.kind = "buy" /\ c.feeState = "pending"
           /\ c.priceState = "rejected" /\ c.priceRequest = Some(c.params.amount)
           /\ Failed(c) /\ c.outcome = Some(Rejected(c.priceError[1]))
           /\ c.params.amount > 0

\* a sell order whose fee fetch failed
C16_WitnessSell ==
    \E i \in 1..Len(calls) :
        LET c == calls[i]
        IN /\ c.params.kind = "sell" /\ c.feeState = "rejected"
           /\ c.priceRequest = None
           /\ Failed(c) /\ c.outcome = Some(Rejected(c.feeError[1]))

\* the removeUnsupportedToken action for `token` on chain `chainId`
RemoveOf(chainId, token) ==
    [type |-> "removeUnsupportedToken", chainId |-> chainId, address |-> toLowerCase(token)]

\* C17: removeUnsupportedToken is dispatched only for a fresh successful
\* quote and only when the sell or the buy token is marked unsupported; it is
\* then dispatched exactly once, before updateQuote, for the sell token's
\* record if the sell token is marked and otherwise for the buy token's; when
\* neither is marked it is not dispatched and updateQuote still is.
C17_RemoveUnsupportedOnFreshQuote ==
    \A i \in 1..Len(calls) :
        LET c == calls[i]
            p == c.params
            fresh == Succeeded(c) /\ IsFresh(c.deliveries[1])
        IN /\ (c.marked # None) = fresh
           /\ ~fresh => Count(TypesOf(i), "removeUnsupportedToken") = 0
           /\ fresh =>
                 IF p.sellToken \in c.marked[1]
                 THEN /\ TypesOf(i) = <<"removeUnsupportedToken", "updateQuote">>
                      /\ ActionsOf(i)[1] = RemoveOf(p.chainId, p.sellToken)
                 ELSE IF p.buyToken \in c.marked[1]
                 THEN /\ TypesOf(i) = <<"removeUnsupportedToken", "updateQuote">>
                      /\ ActionsOf(i)[1] = RemoveOf(p.chainId, p.buyToken)
                 ELSE TypesOf(i) = <<"updateQuote">>

\* both tokens are marked and only the sell token's mark is removed
C17_Witness ==
    \E i \in 1..Len(calls) :
        /\ Succeeded(calls[i]) /\ IsFresh(calls[i].deliveries[1])
        /\ calls[i].marked = Some({calls[i].params.sellToken, calls[i].params.buyToken})
        /\ TypesOf(i) = <<"removeUnsupportedToken", "updateQuote">>
        /\ ActionsOf(i)[1].address = "0xab"

C17_WitnessBuyOnly ==
    \E i \in 1..Len(calls) :
        /\ Succeeded(calls[i]) /\ IsFresh(calls[i].deliveries[1])
        /\ calls[i].marked = Some({calls[i].params.buyToken})
        /\ ActionsOf(i)[1] = RemoveOf(calls[i].params.chainId, "0xCd")

C17_WitnessNeither ==
    \E i \in 1..Len(calls) :
        /\ Succeeded(calls[i]) /\ IsFresh(calls[i].deliveries[1])
        /\ calls[i].marked = Some({})
        /\ TypesOf(i) = <<"updateQuote">>

====
